---------------------------- MODULE Spec2Model ----------------------------
(***************************************************************************)
(* GeoMaster (src/src/App.tsx): the App component's state, its event       *)
(* handlers calculatePythagoras, calculateTrig and handleCopy, and the     *)
(* arithmetic they rest on.                                                *)
(*                                                                         *)
(* Numbers.  A JavaScript number is an IEEE-754 binary floating point      *)
(* value.  The model keeps the format and scales it down: a finite value   *)
(* is an integer count n of quanta of 2^-FracBits, representable when n    *)
(* has at most Prec significant bits and |n| <= MaxFinite; beyond that an  *)
(* operation gives Infinity, and the invalid operations give NaN.  Every   *)
(* operation returns the exact result rounded to the nearest representable *)
(* value, ties to even, as IEEE-754 prescribes.  (The sign of zero is not  *)
(* kept: no comparison, format or result of the program depends on it.)    *)
(***************************************************************************)
EXTENDS Integers, Sequences, FiniteSets

(***************************************************************************)
(* The floating point format.                                              *)
(***************************************************************************)
Prec == 6
FracBits == 6
MaxShift == 9

Quantum == 2 ^ FracBits
MaxFinite == (2 ^ Prec - 1) * 2 ^ MaxShift
\* Products above this bound are far past MaxFinite and are not multiplied out.
IntLimit == 2 ^ 30

NaN == [k |-> "nan", n |-> 0]
Inf(s) == [k |-> "inf", n |-> s]
Fin(n) == [k |-> "fin", n |-> n]
Zero == Fin(0)

Abs(i) == IF i < 0 THEN -i ELSE i
Sgn(i) == IF i < 0 THEN -1 ELSE 1

\* Number.isNaN / the global isNaN on a number.
isNaN(x) == x.k = "nan"
isFinite(x) == x.k = "fin"

\* The least j >= 0 with q < 2^(Prec+j): how many low bits a magnitude of q
\* quanta cannot keep.
RECURSIVE Shift(_, _)
Shift(q, j) == IF q < 2 ^ (Prec + j) THEN j ELSE Shift(q, j + 1)

\* num/den quanta (num >= 0, den > 0) rounded to nearest, ties to even.
RoundMag(num, den) ==
  LET j == Shift(num \div den, 0)
      d2 == den * 2 ^ j
      m == num \div d2
      rem == num - m * d2
      up == (2 * rem > d2) \/ (2 * rem = d2 /\ m % 2 = 1)
  IN (IF up THEN m + 1 ELSE m) * 2 ^ j

\* The number nearest to s * num/den quanta; Infinity past the largest finite.
Round(s, num, den) ==
  LET mag == RoundMag(num, den)
  IN IF mag > MaxFinite THEN Inf(s) ELSE Fin(s * mag)

Neg(x) == IF x.k = "nan" THEN x ELSE [x EXCEPT !.n = -x.n]

\* x * y
Mul(x, y) ==
  IF isNaN(x) \/ isNaN(y) THEN NaN
  ELSE IF x.k = "inf" \/ y.k = "inf"
       THEN IF x.n = 0 \/ y.n = 0 THEN NaN ELSE Inf(Sgn(x.n) * Sgn(y.n))
  ELSE IF x.n # 0 /\ Abs(y.n) > IntLimit \div Abs(x.n)
       THEN Inf(Sgn(x.n) * Sgn(y.n))
  ELSE Round(Sgn(x.n) * Sgn(y.n), Abs(x.n) * Abs(y.n), Quantum)

\* x + y
Add(x, y) ==
  IF isNaN(x) \/ isNaN(y) THEN NaN
  ELSE IF x.k = "inf" /\ y.k = "inf"
       THEN IF x.n = y.n THEN x ELSE NaN
  ELSE IF x.k = "inf" THEN x
  ELSE IF y.k = "inf" THEN y
  ELSE Round(Sgn(x.n + y.n), Abs(x.n + y.n), 1)

\* x - y
Sub(x, y) == Add(x, Neg(y))

\* x / y
Div(x, y) ==
  IF isNaN(x) \/ isNaN(y) THEN NaN
  ELSE IF x.k = "inf"
       THEN IF y.k = "inf" THEN NaN ELSE Inf(Sgn(x.n) * Sgn(y.n))
  ELSE IF y.k = "inf" THEN Zero
  ELSE IF y.n = 0
       THEN IF x.n = 0 THEN NaN ELSE Inf(Sgn(x.n))
  ELSE Round(Sgn(x.n) * Sgn(y.n), Abs(x.n) * Quantum, Abs(y.n))

\* The order of the numbers, with the infinities at the ends.
Key(x) == IF x.k = "inf" THEN x.n * (MaxFinite + 1) ELSE x.n
\* x <= y, x < y, x >= y, x > y: false when either side is NaN.
Leq(x, y) == ~isNaN(x) /\ ~isNaN(y) /\ Key(x) <= Key(y)
Lt(x, y) == ~isNaN(x) /\ ~isNaN(y) /\ Key(x) < Key(y)
Geq(x, y) == Leq(y, x)
Gt(x, y) == Lt(y, x)

\* floor(sqrt(N)) by bisection: lo*lo <= N < hi*hi throughout.
RECURSIVE ISqrtIn(_, _, _)
ISqrtIn(N, lo, hi) ==
  IF hi - lo <= 1 THEN lo
  ELSE LET mid == (lo + hi) \div 2
       IN IF mid * mid <= N THEN ISqrtIn(N, mid, hi) ELSE ISqrtIn(N, lo, mid)
ISqrt(N) == ISqrtIn(N, 0, 2 ^ 15)

\* sqrt of n quanta (n > 0), in quanta, rounded to nearest, ties to even.
SqrtMag(n) ==
  LET N == n * Quantum
      j == Shift(ISqrt(N), 0)
      m == ISqrt(N \div (4 ^ j))
      half == (2 * m + 1) * (2 * m + 1) * 4 ^ j
      up == (4 * N > half) \/ (4 * N = half /\ m % 2 = 1)
  IN (IF up THEN m + 1 ELSE m) * 2 ^ j

\* Math.sqrt
Sqrt(x) ==
  IF isNaN(x) THEN NaN
  ELSE IF x.k = "inf" THEN (IF x.n > 0 THEN x ELSE NaN)
  ELSE IF x.n < 0 THEN NaN
  ELSE Fin(SqrtMag(x.n))


\* A number written in the source (180, 0, 90), as the number it denotes.
Num(i) == Round(Sgn(i), Abs(i) * Quantum, 1)

(***************************************************************************)
(* Math.sin, Math.cos, Math.tan: "implementation-approximated" values.     *)
(* The series are summed in units of 1/TrigScale, far finer than a         *)
(* quantum, and the sum is rounded to the format.  The argument is the     *)
(* angle in radians, which the program keeps between 0 and pi/2.           *)
(***************************************************************************)
TrigScale == 2 ^ 20

\* sgn*mag - mag*x^2/(k(k+1)) + ... for x = n quanta, until the terms vanish.
RECURSIVE TaylorSum(_, _, _, _, _)
TaylorSum(mag, sgn, n, k, acc) ==
  IF mag = 0 THEN acc
  ELSE TaylorSum(((((mag * n) \div Quantum) * n) \div Quantum) \div (k * (k + 1)),
                 -sgn, n, k + 2, acc + sgn * mag)

SinScaled(n) == TaylorSum((n * TrigScale) \div Quantum, 1, n, 2, 0)
CosScaled(n) == TaylorSum(TrigScale, 1, n, 1, 0)

\* Math.sin
Sin(x) ==
  IF ~isFinite(x) THEN NaN
  ELSE LET v == SinScaled(Abs(x.n))
       IN Round(Sgn(x.n) * Sgn(v), Abs(v) * Quantum, TrigScale)

\* Math.cos
Cos(x) ==
  IF ~isFinite(x) THEN NaN
  ELSE LET v == CosScaled(Abs(x.n))
       IN Round(Sgn(v), Abs(v) * Quantum, TrigScale)

\* Math.tan
Tan(x) ==
  IF ~isFinite(x) THEN NaN
  ELSE LET sv == SinScaled(Abs(x.n))
           cv == CosScaled(Abs(x.n))
           s == Sgn(x.n) * Sgn(sv) * Sgn(cv)
       IN IF cv = 0 THEN Inf(s) ELSE Round(s, Abs(sv) * Quantum, Abs(cv))

\* Math.PI: the number nearest to pi (355/113 agrees with pi to 3 in 10^7).
PI == Round(1, 355 * Quantum, 113)

(***************************************************************************)
(* parseFloat.  A field's text is a sequence of characters.  parseFloat    *)
(* skips leading blanks and reads the longest prefix that is a decimal     *)
(* literal: a sign, digits, a point, digits; what follows is ignored, and  *)
(* a text with no such prefix gives NaN.  (Exponents and the word Infinity *)
(* are not read: the texts of the model are written without them.)         *)
(***************************************************************************)
DigitChars == <<"0", "1", "2", "3", "4", "5", "6", "7", "8", "9">>
IsDigit(ch) == \E i \in 1..10 : DigitChars[i] = ch
DigitVal(ch) == (CHOOSE i \in 1..10 : DigitChars[i] = ch) - 1

RECURSIVE SkipBlanks(_, _)
SkipBlanks(s, i) == IF i <= Len(s) /\ s[i] = " " THEN SkipBlanks(s, i + 1) ELSE i

\* The index after the run of digits that starts at i.
RECURSIVE DigitsEnd(_, _)
DigitsEnd(s, i) == IF i <= Len(s) /\ IsDigit(s[i]) THEN DigitsEnd(s, i + 1) ELSE i

\* The digits s[i..j-1] read as a decimal numeral, after the digits read into acc.
RECURSIVE DigitsValue(_, _, _, _)
DigitsValue(s, i, j, acc) ==
  IF i >= j THEN acc ELSE DigitsValue(s, i + 1, j, 10 * acc + DigitVal(s[i]))

parseFloat(s) ==
  LET i0 == SkipBlanks(s, 1)
      signed == i0 <= Len(s) /\ s[i0] \in {"+", "-"}
      sgn == IF signed /\ s[i0] = "-" THEN -1 ELSE 1
      i1 == IF signed THEN i0 + 1 ELSE i0
      i2 == DigitsEnd(s, i1)
      dot == i2 <= Len(s) /\ s[i2] = "."
      i3 == IF dot THEN DigitsEnd(s, i2 + 1) ELSE i2
      nFrac == IF dot THEN i3 - (i2 + 1) ELSE 0
      units == DigitsValue(s, i2 + 1, i3, DigitsValue(s, i1, i2, 0))
  IN IF (i2 - i1) + nFrac = 0 THEN NaN
     ELSE Round(sgn, units * Quantum, 10 ^ nFrac)

(***************************************************************************)
(* Numbers in the derivation texts.  `${x}` (Number::toString) writes the  *)
(* shortest decimal that reads back as x, so it is kept as x itself;       *)
(* x.toFixed(d) writes x rounded to d decimals, halves away from zero,     *)
(* kept as the count of units of 10^-d.                                    *)
(***************************************************************************)
Str(x) == [form |-> "toString", k |-> x.k, units |-> x.n]
toFixed(x, d) ==
  IF ~isFinite(x) THEN [form |-> "toFixed", k |-> x.k, units |-> x.n]
  ELSE [form |-> "toFixed", k |-> "fin",
        units |-> Sgn(x.n) * ((2 * Abs(x.n) * 10 ^ d + Quantum) \div (2 * Quantum))]


(***************************************************************************)
(* The state of App (useState, lines 166-185), the text last written to    *)
(* the clipboard, the setTimeout callbacks still pending, the message of   *)
(* the alert the last handler raised, and the handler that ran last.       *)
(***************************************************************************)
VARIABLES activeTab, darkMode, showReview, copied,
          pythA, pythB, pythC, pythResult,
          trigAngle, trigSideType, trigSideVal, trigResult,
          clipboard, timers, alertMsg, lastOp

vars == <<activeTab, darkMode, showReview, copied,
          pythA, pythB, pythC, pythResult,
          trigAngle, trigSideType, trigSideVal, trigResult,
          clipboard, timers, alertMsg, lastOp>>

uiVars == <<activeTab, darkMode, showReview, copied, clipboard, timers>>
pythInputs == <<pythA, pythB, pythC>>
trigInputs == <<trigAngle, trigSideType, trigSideVal>>

\* A result not yet computed (useState(null)).
Null == [isNull |-> TRUE]
NoAlert == "none"
GeometryAlert == "La hipotenusa debe ser mayor que el cateto."
AngleAlert == "El angulo debe estar entre 0 y 90."

\* The most setTimeout callbacks kept pending at once.
MaxTimers == 2

\* The texts typed into the fields.
PythTexts == { <<>>, <<"a", "b", "c">>, <<"0">>, <<"2">>, <<"3">>, <<"4">>, <<"5">>,
               <<"-", "5">> }
AngleTexts == { <<>>, <<"a", "b", "c">>, <<"0">>, <<"3", "0">>, <<"4", "5">>, <<"6", "0">>,
                <<"9", "0">>, <<"-", "1", "0">>, <<"1", "2", "0">> }
SideTexts == { <<>>, <<"a", "b", "c">>, <<"0">>, <<"5">>, <<"1", "0">>, <<"-", "5">> }
Sides == {"a", "b", "c"}

(***************************************************************************)
(* calculatePythagoras (lines 207-244).                                    *)
(***************************************************************************)
Step(text, math, args) == [text |-> text, math |-> math, args |-> args]

\* PythBranch with the tests on the hypotenuse made first.
PythBranchHypotenuseFirst(a, b, c) ==
  IF ~isNaN(a) /\ ~isNaN(c) THEN "b"
  ELSE IF ~isNaN(b) /\ ~isNaN(c) THEN "a"
  ELSE IF ~isNaN(a) /\ ~isNaN(b) THEN "c"
  ELSE "none"

\* PythBranch with || for && in its last test.
PythBranchEitherLeg(a, b, c) ==
  IF ~isNaN(a) /\ ~isNaN(b) THEN "c"
  ELSE IF ~isNaN(a) /\ ~isNaN(c) THEN "b"
  ELSE IF ~isNaN(b) \/ ~isNaN(c) THEN "a"
  ELSE "none"

\* Which side the chain of tests at lines 215, 225, 234 sets out to find.
PythBranch(a, b, c) ==
  IF ~isNaN(a) /\ ~isNaN(b) THEN "c"
  ELSE IF ~isNaN(a) /\ ~isNaN(c) THEN "b"
  ELSE IF ~isNaN(b) /\ ~isNaN(c) THEN "a"
  ELSE "none"

\* FindHypotenuse adding the root to the value stored by the call before.
FindHypotenuseAccumulated(a, b) ==
  IF pythResult = Null THEN Sqrt(Add(Mul(a, a), Mul(b, b)))
  ELSE Add(pythResult.val, Sqrt(Add(Mul(a, a), Mul(b, b))))

\* FindHypotenuse without the square root.
FindHypotenuseNoRoot(a, b) == Add(Mul(a, a), Mul(b, b))

\* Math.sqrt(a * a + b * b)
FindHypotenuse(a, b) == Sqrt(Add(Mul(a, a), Mul(b, b)))

\* HypotenuseTooShort with < for <=.
HypotenuseTooShortStrict(c, leg) == Lt(c, leg)

\* if (c <= a) return alert(...)
HypotenuseTooShort(c, leg) == Leq(c, leg)

\* FindLeg with + for -.
FindLegSum(c, leg) == Sqrt(Add(Mul(c, c), Mul(leg, leg)))

\* Math.sqrt(c * c - a * a)
FindLeg(c, leg) == Sqrt(Sub(Mul(c, c), Mul(leg, leg)))

\* StepsFindC without the step that states the general formula.
StepsFindCNoFormula(a, b, result) ==
  << Step("Identificamos los catetos:", "a = ${a}, b = ${b}", <<Str(a), Str(b)>>),
     Step("Sustituimos valores:", "c = \\sqrt{${a}^2 + ${b}^2}", <<Str(a), Str(b)>>),
     Step("Calculamos cuadrados:", "c = \\sqrt{${(a*a).toFixed(2)} + ${(b*b).toFixed(2)}}",
          <<toFixed(Mul(a, a), 2), toFixed(Mul(b, b), 2)>>),
     Step("Sumamos:", "c = \\sqrt{${(a*a + b*b).toFixed(2)}}",
          <<toFixed(Add(Mul(a, a), Mul(b, b)), 2)>>),
     Step("Resultado final:", "c \\approx ${result.toFixed(4)}", <<toFixed(result, 4)>>) >>

\* The derivation of the hypotenuse (lines 218-223).
StepsFindC(a, b, result) ==
  << Step("Identificamos los catetos:", "a = ${a}, b = ${b}", <<Str(a), Str(b)>>),
     Step("Usamos la formula:", "c = \\sqrt{a^2 + b^2}", <<>>),
     Step("Sustituimos valores:", "c = \\sqrt{${a}^2 + ${b}^2}", <<Str(a), Str(b)>>),
     Step("Calculamos cuadrados:", "c = \\sqrt{${(a*a).toFixed(2)} + ${(b*b).toFixed(2)}}",
          <<toFixed(Mul(a, a), 2), toFixed(Mul(b, b), 2)>>),
     Step("Sumamos:", "c = \\sqrt{${(a*a + b*b).toFixed(2)}}",
          <<toFixed(Add(Mul(a, a), Mul(b, b)), 2)>>),
     Step("Resultado final:", "c \\approx ${result.toFixed(4)}", <<toFixed(result, 4)>>) >>

\* The derivation of a leg; side is the leg found, other the leg given.
StepsFindLeg(side, other, leg, c, result) ==
  << Step("Identificamos los lados:", other \o " = ${leg}, c = ${c}", <<Str(leg), Str(c)>>),
     Step("Despejamos " \o side \o " de la formula:",
          side \o " = \\sqrt{c^2 - " \o other \o "^2}", <<>>),
     Step("Sustituimos valores:", side \o " = \\sqrt{${c}^2 - ${leg}^2}",
          <<Str(c), Str(leg)>>),
     Step("Resultado final:", side \o " \\approx ${result.toFixed(4)}",
          <<toFixed(result, 4)>>) >>

\* What one call does with the three parsed fields: store a result, raise an
\* alert, or neither.
PythOutcome(a, b, c) ==
  LET branch == PythBranch(a, b, c)
      leg == IF branch = "b" THEN a ELSE b
      other == IF branch = "b" THEN "a" ELSE "b"
  IN IF branch = "c"
     THEN LET result == FindHypotenuse(a, b)
          IN [kind |-> "result",
              result |-> [val |-> result, steps |-> StepsFindC(a, b, result)]]
     ELSE IF branch = "none" THEN [kind |-> "none"]
     ELSE IF HypotenuseTooShort(c, leg) THEN [kind |-> "alert"]
     ELSE LET result == FindLeg(c, leg)
          IN [kind |-> "result",
              result |-> [val |-> result,
                          steps |-> StepsFindLeg(branch, other, leg, c, result)]]

\* onClick of the Calcular button of the Pythagoras tab (line 386).
calculatePythagoras ==
  /\ activeTab = "pythagoras"
  /\ LET out == PythOutcome(parseFloat(pythA), parseFloat(pythB), parseFloat(pythC))
     IN /\ pythResult' = IF out.kind = "result" THEN out.result ELSE pythResult
        /\ alertMsg' = IF out.kind = "alert" THEN GeometryAlert ELSE NoAlert
  /\ lastOp' = "calculatePythagoras"
  /\ UNCHANGED <<uiVars, pythInputs, trigInputs, trigResult>>

\* setPythA discarding the stored result, which no longer matches the fields.
setPythAClearingResult(texts) ==
  /\ activeTab = "pythagoras"
  /\ \E v \in texts : pythA' = v
  /\ pythResult' = Null
  /\ alertMsg' = NoAlert /\ lastOp' = "input"
  /\ UNCHANGED <<uiVars, pythB, pythC, trigInputs, trigResult>>

\* onChange of the three fields of the Pythagoras tab (lines 360, 370, 380).
setPythA(texts) ==
  /\ activeTab = "pythagoras"
  /\ \E v \in texts : pythA' = v
  /\ alertMsg' = NoAlert /\ lastOp' = "input"
  /\ UNCHANGED <<uiVars, pythB, pythC, pythResult, trigInputs, trigResult>>

setPythB(texts) ==
  /\ activeTab = "pythagoras"
  /\ \E v \in texts : pythB' = v
  /\ alertMsg' = NoAlert /\ lastOp' = "input"
  /\ UNCHANGED <<uiVars, pythA, pythC, pythResult, trigInputs, trigResult>>

setPythC(texts) ==
  /\ activeTab = "pythagoras"
  /\ \E v \in texts : pythC' = v
  /\ alertMsg' = NoAlert /\ lastOp' = "input"
  /\ UNCHANGED <<uiVars, pythA, pythB, pythResult, trigInputs, trigResult>>

\* The state after the first render (the useState initial values).
Init ==
  /\ activeTab = "pythagoras" /\ darkMode = FALSE /\ showReview = FALSE /\ copied = FALSE
  /\ pythA = <<>> /\ pythB = <<>> /\ pythC = <<>> /\ pythResult = Null
  /\ trigAngle = <<>> /\ trigSideType = "c" /\ trigSideVal = <<>> /\ trigResult = Null
  /\ clipboard = <<>> /\ timers = 0 /\ alertMsg = NoAlert /\ lastOp = "init"

\* The Pythagoras tab alone.
NextPyth ==
  \/ setPythA(PythTexts)
  \/ setPythB(PythTexts)
  \/ setPythC(PythTexts)
  \/ calculatePythagoras

SpecPyth == Init /\ [][NextPyth]_vars


(***************************************************************************)
(* calculateTrig (lines 246-287).                                          *)
(***************************************************************************)
\* AngleOutOfRange with < and > for <= and >=.
AngleOutOfRangeStrict(angleDeg) == Lt(angleDeg, Num(0)) \/ Gt(angleDeg, Num(90))

\* angleDeg <= 0 || angleDeg >= 90
AngleOutOfRange(angleDeg) == Leq(angleDeg, Num(0)) \/ Geq(angleDeg, Num(90))

\* (angleDeg * Math.PI) / 180
AngleRad(angleDeg) == Div(Mul(angleDeg, PI), Num(180))

\* TrigSides with sine and cosine exchanged where the hypotenuse is known.
TrigSidesSwapped(side, sideVal, angleRad) ==
  IF side = "c"
  THEN [c |-> sideVal,
        a |-> Mul(sideVal, Cos(angleRad)),
        b |-> Mul(sideVal, Sin(angleRad))]
  ELSE IF side = "a"
  THEN [a |-> sideVal,
        c |-> Div(sideVal, Sin(angleRad)),
        b |-> Div(sideVal, Tan(angleRad))]
  ELSE [b |-> sideVal,
        c |-> Div(sideVal, Cos(angleRad)),
        a |-> Mul(sideVal, Tan(angleRad))]

\* The three sides, by the side that is known (lines 257-278).
TrigSides(side, sideVal, angleRad) ==
  IF side = "c"
  THEN [c |-> sideVal,
        a |-> Mul(sideVal, Sin(angleRad)),
        b |-> Mul(sideVal, Cos(angleRad))]
  ELSE IF side = "a"
  THEN [a |-> sideVal,
        c |-> Div(sideVal, Sin(angleRad)),
        b |-> Div(sideVal, Tan(angleRad))]
  ELSE [b |-> sideVal,
        c |-> Div(sideVal, Cos(angleRad)),
        a |-> Mul(sideVal, Tan(angleRad))]

TrigSteps(side, sideVal, angleDeg, t) ==
  IF side = "c"
  THEN << Step("Dado Hipotenusa (c) y angulo:", "c = ${c}, \\alpha = ${angleDeg}",
               <<Str(t.c), Str(angleDeg)>>),
          Step("Calculamos cateto opuesto (a):",
               "a = c \\cdot \\sin(\\alpha) = ${c} \\cdot \\sin(${angleDeg}) \\approx ${a.toFixed(4)}",
               <<Str(t.c), Str(angleDeg), toFixed(t.a, 4)>>),
          Step("Calculamos cateto adyacente (b):",
               "b = c \\cdot \\cos(\\alpha) = ${c} \\cdot \\cos(${angleDeg}) \\approx ${b.toFixed(4)}",
               <<Str(t.c), Str(angleDeg), toFixed(t.b, 4)>>) >>
  ELSE IF side = "a"
  THEN << Step("Dado Cateto Opuesto (a) y angulo:", "a = ${a}, \\alpha = ${angleDeg}",
               <<Str(t.a), Str(angleDeg)>>),
          Step("Calculamos hipotenusa (c):",
               "c = a / \\sin(\\alpha) = ${a} / \\sin(${angleDeg}) \\approx ${c.toFixed(4)}",
               <<Str(t.a), Str(angleDeg), toFixed(t.c, 4)>>),
          Step("Calculamos cateto adyacente (b):",
               "b = a / \\tan(\\alpha) = ${a} / \\tan(${angleDeg}) \\approx ${b.toFixed(4)}",
               <<Str(t.a), Str(angleDeg), toFixed(t.b, 4)>>) >>
  ELSE << Step("Dado Cateto Adyacente (b) y angulo:", "b = ${b}, \\alpha = ${angleDeg}",
               <<Str(t.b), Str(angleDeg)>>),
          Step("Calculamos hipotenusa (c):",
               "c = b / \\cos(\\alpha) = ${b} / \\cos(${angleDeg}) \\approx ${c.toFixed(4)}",
               <<Str(t.b), Str(angleDeg), toFixed(t.c, 4)>>),
          Step("Calculamos cateto opuesto (a):",
               "a = b \\cdot \\tan(\\alpha) = ${b} \\cdot \\tan(${angleDeg}) \\approx ${a.toFixed(4)}",
               <<Str(t.b), Str(angleDeg), toFixed(t.a, 4)>>) >>

\* TrigOutcome with the range of the angle tested before the presence of both.
TrigOutcomeRangeFirst(angleDeg, side, sideVal) ==
  IF ~isNaN(angleDeg) /\ (Leq(angleDeg, Num(0)) \/ Geq(angleDeg, Num(90)))
  THEN [kind |-> "alert"]
  ELSE [kind |-> "none"]

\* What one call does with the parsed angle and side value.
TrigOutcome(angleDeg, side, sideVal) ==
  IF isNaN(angleDeg) \/ isNaN(sideVal) THEN [kind |-> "none"]
  ELSE IF AngleOutOfRange(angleDeg) THEN [kind |-> "alert"]
  ELSE LET angleRad == AngleRad(angleDeg)
           t == TrigSides(side, sideVal, angleRad)
       IN [kind |-> "result",
           result |-> [a |-> t.a, b |-> t.b, c |-> t.c,
                       sin |-> Sin(angleRad), cos |-> Cos(angleRad), tan |-> Tan(angleRad),
                       steps |-> TrigSteps(side, sideVal, angleDeg, t)]]

\* calculateTrig clearing the result of the other solver as well.
calculateTrigClearingPyth ==
  /\ activeTab = "trig"
  /\ LET out == TrigOutcome(parseFloat(trigAngle), trigSideType, parseFloat(trigSideVal))
     IN /\ trigResult' = IF out.kind = "result" THEN out.result ELSE trigResult
        /\ alertMsg' = IF out.kind = "alert" THEN AngleAlert ELSE NoAlert
  /\ lastOp' = "calculateTrig"
  /\ pythResult' = Null
  /\ UNCHANGED <<uiVars, pythInputs, trigInputs>>

\* onClick of the Calcular button of the trigonometry tab (line 430).
calculateTrig ==
  /\ activeTab = "trig"
  /\ LET out == TrigOutcome(parseFloat(trigAngle), trigSideType, parseFloat(trigSideVal))
     IN /\ trigResult' = IF out.kind = "result" THEN out.result ELSE trigResult
        /\ alertMsg' = IF out.kind = "alert" THEN AngleAlert ELSE NoAlert
  /\ lastOp' = "calculateTrig"
  /\ UNCHANGED <<uiVars, pythInputs, pythResult, trigInputs>>

\* onChange of the fields of the trigonometry tab (lines 400, 410, 423).
setTrigAngle(texts) ==
  /\ activeTab = "trig"
  /\ \E v \in texts : trigAngle' = v
  /\ alertMsg' = NoAlert /\ lastOp' = "input"
  /\ UNCHANGED <<uiVars, pythInputs, pythResult, trigSideType, trigSideVal, trigResult>>

setTrigSideType(sides) ==
  /\ activeTab = "trig"
  /\ \E v \in sides : trigSideType' = v
  /\ alertMsg' = NoAlert /\ lastOp' = "input"
  /\ UNCHANGED <<uiVars, pythInputs, pythResult, trigAngle, trigSideVal, trigResult>>

setTrigSideVal(texts) ==
  /\ activeTab = "trig"
  /\ \E v \in texts : trigSideVal' = v
  /\ alertMsg' = NoAlert /\ lastOp' = "input"
  /\ UNCHANGED <<uiVars, pythInputs, pythResult, trigAngle, trigSideType, trigResult>>

(***************************************************************************)
(* The rest of the page: the tabs, the theme, the review panel, the copy   *)
(* button and its timer.                                                   *)
(***************************************************************************)
\* onClick of the two tab buttons (lines 322, 329).
setActiveTab ==
  /\ \E t \in {"pythagoras", "trig"} : activeTab' = t
  /\ alertMsg' = NoAlert /\ lastOp' = "setActiveTab"
  /\ UNCHANGED <<darkMode, showReview, copied, clipboard, timers,
                 pythInputs, pythResult, trigInputs, trigResult>>

\* onClick of the theme button (line 309).
toggleDarkMode ==
  /\ darkMode' = ~darkMode
  /\ alertMsg' = NoAlert /\ lastOp' = "setDarkMode"
  /\ UNCHANGED <<activeTab, showReview, copied, clipboard, timers,
                 pythInputs, pythResult, trigInputs, trigResult>>

\* onClick of the review button, of the panel's backdrop and of its button
\* (lines 303, 532, 592).
setShowReview ==
  /\ \E v \in BOOLEAN : showReview' = v
  /\ alertMsg' = NoAlert /\ lastOp' = "setShowReview"
  /\ UNCHANGED <<activeTab, darkMode, copied, clipboard, timers,
                 pythInputs, pythResult, trigInputs, trigResult>>

\* The text handleCopy builds: the steps of the active tab's result, joined;
\* undefined (here the empty text) without a result.
CopyText ==
  LET r == IF activeTab = "pythagoras" THEN pythResult ELSE trigResult
  IN IF r = Null THEN <<>> ELSE r.steps

\* handleCopy without the setTimeout that resets the flag.
handleCopyNoTimeout ==
  /\ pythResult # Null \/ trigResult # Null
  /\ timers < MaxTimers
  /\ IF CopyText # <<>>
     THEN /\ clipboard' = CopyText
          /\ copied' = TRUE
          /\ UNCHANGED timers
     ELSE UNCHANGED <<clipboard, copied, timers>>
  /\ alertMsg' = NoAlert /\ lastOp' = "handleCopy"
  /\ UNCHANGED <<activeTab, darkMode, showReview,
                 pythInputs, pythResult, trigInputs, trigResult>>

\* onClick of the copy button (lines 195-205), which is rendered once either
\* result exists (line 441).
handleCopy ==
  /\ pythResult # Null \/ trigResult # Null
  /\ timers < MaxTimers
  /\ IF CopyText # <<>>
     THEN /\ clipboard' = CopyText
          /\ copied' = TRUE
          /\ timers' = timers + 1
     ELSE UNCHANGED <<clipboard, copied, timers>>
  /\ alertMsg' = NoAlert /\ lastOp' = "handleCopy"
  /\ UNCHANGED <<activeTab, darkMode, showReview,
                 pythInputs, pythResult, trigInputs, trigResult>>

\* A callback of setTimeout(() => setCopied(false), 2000) runs (line 203).
copyTimeout ==
  /\ timers > 0
  /\ timers' = timers - 1
  /\ copied' = FALSE
  /\ alertMsg' = NoAlert /\ lastOp' = "timeout"
  /\ UNCHANGED <<activeTab, darkMode, showReview, clipboard,
                 pythInputs, pythResult, trigInputs, trigResult>>

\* The trigonometry tab alone.
NextTrig ==
  \/ setActiveTab
  \/ setTrigAngle(AngleTexts)
  \/ setTrigSideType(Sides)
  \/ setTrigSideVal(SideTexts)
  \/ calculateTrig

SpecTrig == Init /\ [][NextTrig]_vars

\* The texts typed and the sides chosen when the whole page is explored.
FewPythTexts == { <<>>, <<"3">> }
FewAngleTexts == { <<"3", "0">>, <<"9", "0">> }
FewSideTexts == { <<"5">> }
FewSides == {"a", "c"}

\* The two calculators and their fields, without the rest of the page.
CalcPythTexts == { <<>>, <<"3">>, <<"5">> }

NextCalc ==
  \/ setActiveTab
  \/ setPythA(CalcPythTexts)
  \/ setPythB(CalcPythTexts)
  \/ setPythC(CalcPythTexts)
  \/ calculatePythagoras
  \/ setTrigAngle(FewAngleTexts)
  \/ setTrigSideType(Sides)
  \/ setTrigSideVal(FewSideTexts)
  \/ calculateTrig

SpecCalc == Init /\ [][NextCalc]_vars

Next ==
  \/ setPythA(FewPythTexts)
  \/ setPythB(FewPythTexts)
  \/ setPythC(FewPythTexts)
  \/ calculatePythagoras
  \/ setTrigAngle(FewAngleTexts)
  \/ setTrigSideType(FewSides)
  \/ setTrigSideVal(FewSideTexts)
  \/ calculateTrig
  \/ setActiveTab
  \/ toggleDarkMode
  \/ setShowReview
  \/ handleCopy
  \/ copyTimeout

Spec == Init /\ [][Next]_vars

\* The whole page, every pending setTimeout callback being run in the end.
FairSpec == Spec /\ WF_vars(copyTimeout)


(***************************************************************************)
(* The properties.  A, B, C, Angle, SideVal are the fields as the handlers *)
(* read them.  After a handler has run (lastOp), the fields are still the  *)
(* ones it read, since only another handler changes them.                  *)
(***************************************************************************)
A == parseFloat(pythA)
B == parseFloat(pythB)
C == parseFloat(pythC)
Angle == parseFloat(trigAngle)
SideVal == parseFloat(trigSideVal)

Present(x) == ~isNaN(x)
PresentCount ==
  (IF Present(A) THEN 1 ELSE 0) + (IF Present(B) THEN 1 ELSE 0) + (IF Present(C) THEN 1 ELSE 0)
NonNegative(x) == Geq(x, Zero)
Positive(x) == Gt(x, Zero)
\* Neither zero nor below the least number kept to full precision.
Normal(x) == isFinite(x) /\ Abs(x.n) >= 2 ^ (Prec - 1)
\* The distance between n quanta and the next number above.
Ulp(n) == 2 ^ Shift(n, 0)

\* Everything but the stored Pythagoras result and the two history variables.
restOfPyth == <<uiVars, pythInputs, trigInputs, trigResult>>
restOfTrig == <<uiVars, pythInputs, pythResult, trigInputs>>

\* C1: every stored Pythagoras result has a finite, non-negative val, never NaN.
C1_ValFiniteNonNegative ==
  pythResult # Null => isFinite(pythResult.val) /\ NonNegative(pythResult.val)

C4_GeometryAlert ==
  [][(/\ lastOp' = "calculatePythagoras"
      /\ \/ Present(A) /\ ~Present(B) /\ Present(C) /\ Leq(C, A)
         \/ Present(B) /\ ~Present(A) /\ Present(C) /\ Leq(C, B))
       => (alertMsg' = GeometryAlert /\ pythResult' = pythResult)]_vars

C4_Witness ==
  /\ lastOp = "calculatePythagoras"
  /\ A = Num(5) /\ ~Present(B) /\ C = Num(5)
  /\ alertMsg = GeometryAlert
  /\ pythResult # Null

\* C5: with none or one of a, b, c present (blank and non-numeric both absent)
\* calculatePythagoras raises no error and changes nothing.
C5_TooFewIsNoOp ==
  [][(lastOp' = "calculatePythagoras" /\ PresentCount <= 1)
       => (pythResult' = pythResult /\ alertMsg' = NoAlert /\ UNCHANGED restOfPyth)]_vars

C5_Witness ==
  /\ lastOp = "calculatePythagoras"
  /\ pythA = <<"a", "b", "c">> /\ pythB = <<>> /\ Present(C)
  /\ alertMsg = NoAlert
  /\ pythResult # Null

\* C8 as stated: for non-negative a and b with c absent the stored val is
\* non-negative and val * val = a * a + b * b.
C8_ExactSquare ==
  (lastOp = "calculatePythagoras" /\ Present(A) /\ Present(B) /\ ~Present(C)
     /\ NonNegative(A) /\ NonNegative(B))
    => /\ pythResult # Null
       /\ NonNegative(pythResult.val)
       /\ Mul(pythResult.val, pythResult.val) = Add(Mul(A, A), Mul(B, B))

\* v is the number nearest to the exact square root of s (s >= 0): no number lies
\* closer, by the squares of the midpoints to its two neighbours.
IsNearestRoot(v, s) ==
  IF s.k = "inf" THEN v = Inf(1)
  ELSE /\ isFinite(v) /\ v.n >= 0 /\ RoundMag(v.n, 1) = v.n
       /\ (2 * v.n + Ulp(v.n)) * (2 * v.n + Ulp(v.n)) >= 4 * s.n * Quantum
       /\ v.n > 0 =>
            (2 * v.n - Ulp(v.n - 1)) * (2 * v.n - Ulp(v.n - 1)) <= 4 * s.n * Quantum

\* C8 as amended: for non-negative a and b with c absent calculatePythagoras
\* always stores a result and raises no error; val is the number nearest to the
\* exact square root of the computed sum a * a + b * b (Infinity when the sum
\* overflows), so val * val equals the sum up to rounding only.
C8_NearestRoot ==
  (lastOp = "calculatePythagoras" /\ Present(A) /\ Present(B) /\ ~Present(C)
     /\ NonNegative(A) /\ NonNegative(B))
    => /\ alertMsg = NoAlert
       /\ pythResult # Null
       /\ IsNearestRoot(pythResult.val, Add(Mul(A, A), Mul(B, B)))

C8_Witness ==
  /\ lastOp = "calculatePythagoras"
  /\ A = Num(2) /\ B = Num(3) /\ ~Present(C)
  /\ pythResult # Null
  /\ Mul(pythResult.val, pythResult.val) # Num(13)

\* The leg just solved from the hypotenuse and the other leg, put back with that
\* leg into the first form.
Recombined == IF Present(A) THEN FindHypotenuse(A, pythResult.val)
              ELSE FindHypotenuse(pythResult.val, B)
\* A leg was just solved from a non-negative leg and a longer hypotenuse.
LegSolved ==
  /\ lastOp = "calculatePythagoras" /\ alertMsg = NoAlert /\ Present(C)
  /\ \/ Present(A) /\ ~Present(B) /\ NonNegative(A) /\ Gt(C, A)
     \/ Present(B) /\ ~Present(A) /\ NonNegative(B) /\ Gt(C, B)

\* C9 as stated: solving for a leg and recombining it with the other leg gives
\* back the original c.
C9_ExactRoundTrip == LegSolved => (pythResult # Null /\ Recombined = C)

\* C9 as amended: the recombined hypotenuse is c up to rounding, within 4 units
\* in the last place of c, provided c * c neither overflows nor underflows and
\* the recombined sum does not overflow.
C9_RoundTripWithinRounding ==
  (LegSolved /\ Normal(Mul(C, C)))
    => /\ pythResult # Null
       /\ isFinite(Recombined) => Abs(Recombined.n - C.n) <= 4 * Ulp(C.n)

C9_Witness ==
  /\ LegSolved /\ A = Num(2) /\ C = Num(4)
  /\ pythResult # Null
  /\ isFinite(Recombined) /\ Recombined # C

\* C3: every stored trig result has three finite, strictly positive sides with
\* c > a and c > b.
C3_SidesPositiveHypotenuseLongest ==
  trigResult # Null =>
    /\ isFinite(trigResult.a) /\ isFinite(trigResult.b) /\ isFinite(trigResult.c)
    /\ Positive(trigResult.a) /\ Positive(trigResult.b) /\ Positive(trigResult.c)
    /\ Gt(trigResult.c, trigResult.a) /\ Gt(trigResult.c, trigResult.b)

\* C6: with angle and knownValue numeric, angle <= 0 or angle >= 90 raises the
\* invalid-angle alert and leaves the stored trig result unchanged, whichever
\* side is known; 0 < angle < 90 never raises it.
C6_AngleAlert ==
  [][(lastOp' = "calculateTrig" /\ Present(Angle) /\ Present(SideVal))
       => IF Key(Angle) <= 0 \/ Key(Angle) >= 90 * Quantum
          THEN alertMsg' = AngleAlert /\ trigResult' = trigResult
          ELSE alertMsg' = NoAlert]_vars

C6_Witness ==
  /\ lastOp = "calculateTrig"
  /\ Angle = Num(90) /\ Present(SideVal) /\ trigSideType = "a"
  /\ alertMsg = AngleAlert
  /\ trigResult # Null

\* C7: with the angle or the knownValue absent calculateTrig raises no error and
\* changes nothing, even if the value that is present is out of range.
C7_AbsentIsNoOp ==
  [][(lastOp' = "calculateTrig" /\ (~Present(Angle) \/ ~Present(SideVal)))
       => (alertMsg' = NoAlert /\ trigResult' = trigResult /\ UNCHANGED restOfTrig)]_vars

C7_Witness ==
  /\ lastOp = "calculateTrig"
  /\ Angle = Num(90) /\ trigSideVal = <<>>
  /\ alertMsg = NoAlert
  /\ trigResult # Null

\* C10: a stored trig result keeps the supplied value in the field knownSide
\* names, derives the other two sides by that branch's formulas, and its sin,
\* cos and tan are those of the given angle, the values the sides were derived
\* with.
C10_TrigFormulas ==
  (lastOp = "calculateTrig" /\ alertMsg = NoAlert /\ Present(Angle) /\ Present(SideVal))
    => /\ trigResult # Null
       /\ LET r == trigResult
              theta == Div(Mul(Angle, PI), Num(180))
          IN /\ r.sin = Sin(theta) /\ r.cos = Cos(theta) /\ r.tan = Tan(theta)
             /\ trigSideType = "c" =>
                  r.c = SideVal /\ r.a = Mul(r.c, r.sin) /\ r.b = Mul(r.c, r.cos)
             /\ trigSideType = "a" =>
                  r.a = SideVal /\ r.c = Div(r.a, r.sin) /\ r.b = Div(r.a, r.tan)
             /\ trigSideType = "b" =>
                  r.b = SideVal /\ r.c = Div(r.b, r.cos) /\ r.a = Mul(r.b, r.tan)

C10_Witness ==
  /\ lastOp = "calculateTrig" /\ alertMsg = NoAlert
  /\ Angle = Num(30) /\ trigSideType = "c" /\ SideVal = Num(10)
  /\ trigResult # Null
  /\ trigResult.a = Num(5) /\ Gt(trigResult.b, Num(8)) /\ Lt(trigResult.b, Num(9))


StepTexts(steps) == [i \in 1..Len(steps) |-> steps[i].text]

\* C12: every stored result carries a derivation, whose length the branch fixes:
\* 6 steps with a and b given (the legs, the general formula, the substitution,
\* the squares, their sum, the final result, in this order), 4 steps when a leg
\* is solved from the hypotenuse and the other leg, 3 steps in every branch of
\* calculateTrig; a call that ends in an alert or does nothing stores no steps.
C12_DerivationLengths ==
  [][/\ pythResult' # Null => Len(pythResult'.steps) \in {4, 6}
     /\ trigResult' # Null => Len(trigResult'.steps) = 3
     /\ lastOp' = "calculatePythagoras" =>
          IF Present(A) /\ Present(B)
          THEN pythResult' # Null /\ StepTexts(pythResult'.steps) =
                 << "Identificamos los catetos:", "Usamos la formula:",
                    "Sustituimos valores:", "Calculamos cuadrados:", "Sumamos:",
                    "Resultado final:" >>
          ELSE IF \/ Present(A) /\ Present(C) /\ Gt(C, A)
                  \/ Present(B) /\ Present(C) /\ Gt(C, B)
          THEN pythResult' # Null /\ Len(pythResult'.steps) = 4
          ELSE pythResult' = pythResult
     /\ lastOp' = "calculateTrig" =>
          IF Present(Angle) /\ Present(SideVal) /\ Gt(Angle, Num(0)) /\ Lt(Angle, Num(90))
          THEN trigResult' # Null /\ Len(trigResult'.steps) = 3
          ELSE trigResult' = trigResult]_vars

\* A leg solved from a = 3 and c = 5 (4 steps) while the trig result stored
\* before keeps its 3 steps.
C12_Witness ==
  /\ lastOp = "calculatePythagoras" /\ A = Num(3) /\ ~Present(B) /\ C = Num(5)
  /\ pythResult # Null /\ pythResult.val = Num(4) /\ Len(pythResult.steps) = 4
  /\ trigResult # Null /\ Len(trigResult.steps) = 3


(***************************************************************************)
(* The diagram (TriangleVisualizer, lines 483-488).                        *)
(***************************************************************************)
\* x is falsy for ||: NaN or zero.
Falsy(x) == isNaN(x) \/ x = Zero

\* The props a, b, c handed to TriangleVisualizer.
DiagramA ==
  IF activeTab = "pythagoras"
  THEN IF Falsy(A) THEN Zero ELSE A
  ELSE IF trigResult = Null \/ Falsy(trigResult.a) THEN Zero ELSE trigResult.a

DiagramB ==
  IF activeTab = "pythagoras"
  THEN IF Falsy(B) THEN Zero ELSE B
  ELSE IF trigResult = Null \/ Falsy(trigResult.b) THEN Zero ELSE trigResult.b

DiagramC ==
  IF activeTab = "pythagoras"
  THEN IF pythResult # Null /\ ~Falsy(pythResult.val) THEN pythResult.val
       ELSE IF Falsy(C) THEN Zero ELSE C
  ELSE IF trigResult = Null \/ Falsy(trigResult.c) THEN Zero ELSE trigResult.c

\* The call that ran last stored a result for two non-negative sides, the
\* third field being blank.
SolvedFromTwo ==
  /\ lastOp = "calculatePythagoras" /\ alertMsg = NoAlert /\ PresentCount = 2
  /\ \A x \in {A, B, C} : Present(x) => NonNegative(x)
  /\ pythResult # Null /\ isFinite(pythResult.val)

\* C13: after a successful calculation on the Pythagoras tab, the fields
\* unchanged, each entered side is in its own slot of the diagram and the
\* computed side in the slot of the side that was missing, so the three
\* lengths satisfy a*a + b*b = c*c (as far as rounding allows) whichever side
\* was computed.
C13_DiagramIsSolvedTriangle ==
  SolvedFromTwo =>
    /\ DiagramA = (IF Present(A) THEN A ELSE pythResult.val)
    /\ DiagramB = (IF Present(B) THEN B ELSE pythResult.val)
    /\ DiagramC = (IF Present(C) THEN C ELSE pythResult.val)
    /\ Normal(Mul(DiagramC, DiagramC)) =>
         LET r == FindHypotenuse(DiagramA, DiagramB)
         IN isFinite(r) /\ Abs(r.n - DiagramC.n) <= 4 * Ulp(DiagramC.n)


(***************************************************************************)
(* What the handlers leave alone (the whole page).                         *)
(***************************************************************************)
\* C14: calculatePythagoras, whatever its outcome, changes neither the trig
\* result, nor the trig fields, nor the active tab, nor its own fields;
\* calculateTrig changes neither the Pythagoras result nor the Pythagoras
\* fields (nor its own fields, nor the tab).
C14_SolversIsolated ==
  [][/\ lastOp' = "calculatePythagoras" =>
          UNCHANGED <<trigResult, trigInputs, activeTab, pythInputs>>
     /\ lastOp' = "calculateTrig" =>
          UNCHANGED <<pythResult, pythInputs, activeTab, trigInputs>>]_vars

\* calculateTrig has just stored a result while the Pythagoras result and
\* fields of an earlier calculation are still there.
C14_Witness ==
  /\ lastOp = "calculateTrig" /\ trigResult # Null
  /\ pythResult # Null /\ A = Num(3) /\ B = Num(3)
  /\ pythResult.val = FindHypotenuse(Num(3), Num(3))

\* C15: a stored result changes only in a calculation of its own solver that
\* succeeds; edits of the fields, tab switches, the theme, the review panel,
\* copying, the timer, and calculations that alert or do nothing leave both
\* results as they are, so a result once stored is never null again.
C15_ResultChangesOnlyByOwnSuccess ==
  [][/\ pythResult' # pythResult =>
          /\ lastOp' = "calculatePythagoras" /\ alertMsg' = NoAlert
          /\ PythOutcome(A, B, C).kind = "result"
     /\ trigResult' # trigResult =>
          /\ lastOp' = "calculateTrig" /\ alertMsg' = NoAlert
          /\ TrigOutcome(Angle, trigSideType, SideVal).kind = "result"
     /\ lastOp' \notin {"calculatePythagoras", "calculateTrig"} =>
          UNCHANGED <<pythResult, trigResult>>
     /\ pythResult # Null => pythResult' # Null
     /\ trigResult # Null => trigResult' # Null]_vars

\* Both results are still stored after a field was edited to a value for which
\* the stored Pythagoras result no longer stands, a copy, and a failed
\* calculation on the trig tab.
C15_Witness ==
  /\ pythResult # Null /\ pythResult.val = FindHypotenuse(Num(3), Num(3))
  /\ ~Present(A) /\ ~Present(B)
  /\ trigResult # Null /\ Angle = Num(90)
  /\ lastOp = "calculateTrig" /\ alertMsg = AngleAlert
  /\ clipboard # <<>> /\ showReview /\ darkMode


(***************************************************************************)
(* The copy button and its timer.                                          *)
(***************************************************************************)
ActiveResult == IF activeTab = "pythagoras" THEN pythResult ELSE trigResult

\* C16: handleCopy sets copied (writes the clipboard, schedules a reset) only
\* when the active tab has a result of its own, and does nothing when only the
\* other tab has one; while copied is true a reset scheduled by handleCopy is
\* pending; so, the pending timers being run, copied always becomes false
\* again, however clicks and timers interleave.
C16_CopiedIsReset ==
  /\ [][lastOp' = "handleCopy" =>
          IF ActiveResult # Null
          THEN copied' /\ timers' = timers + 1 /\ clipboard' = ActiveResult.steps
          ELSE UNCHANGED <<copied, timers, clipboard>>]_vars
  /\ [](copied => timers > 0)
  /\ (copied ~> ~copied)

\* A click on the trig tab, which has no result, did nothing, while a reset
\* scheduled by an earlier copy of the Pythagoras result is still pending.
C16_Witness ==
  /\ lastOp = "handleCopy" /\ activeTab = "trig" /\ trigResult = Null
  /\ pythResult # Null /\ ~copied /\ timers = 1 /\ clipboard = pythResult.steps


=============================================================================
